---- MODULE Spec2Model ----
(***************************************************************************)
(* runcmd: a builder over process execution (src/src/lib.rs).              *)
(*                                                                         *)
(* The state is one RunCmd object (retval, verbose, execute, shell) and    *)
(* what its last call did that a caller can observe: the processes it      *)
(* spawned, the output it collected, the blocks it printed, the value it   *)
(* returned or the panic it raised.  A panic unwinds out of the call; the  *)
(* object is behind a &mut reference and outlives it, so the model keeps   *)
(* the object and lets further calls follow.                               *)
(*                                                                         *)
(* The operating system is the environment: for each execution it decides  *)
(* whether the process starts, how it ends (exit status or signal) and     *)
(* which bytes it wrote to stdout and stderr.                              *)
(***************************************************************************)
EXTENDS Integers, Sequences, FiniteSets, TLC

VARIABLES
    cmd0,       \* the string handed to new()
    retval,     \* RunCmd.retval : RunCmdOutput
    verbose,    \* RunCmd.verbose
    execute,    \* RunCmd.execute
    shell,      \* RunCmd.shell
    op,         \* the public function called last
    spawned,    \* last call: the spawn attempts made, in order
    output,     \* last call: <<Output>> of execute_output(), <<>> if none
    console,    \* last call: the blocks print() wrote, in order
    result,     \* last call: <<value returned by execute()>>, <<>> if none
    outcome,    \* last call: "return" or the panic that ended it
    log         \* last call: the steps taken, in order

self == <<retval, verbose, execute, shell>>
vars == <<cmd0, retval, verbose, execute, shell,
          op, spawned, output, console, result, outcome, log>>

\* ---------------------------------------------------------------- bounds
\* a process writes at most MaxBytes bytes to stdout and stderr together
MaxBytes == 1
\* exit statuses range over 0..MaxExit
MaxExit == 2

\* ------------------------------------------------------------ environment
Commands == {"true", "bash -c \"exit 1\""}

\* 'f', and the two bytes of U+00E9: a lead byte and a continuation byte
Byte == {102, 195, 169}

BytesUpTo(n) == UNION {[1..k -> Byte] : k \in 0..n}

\* Option<i32> of ExitStatus::code(): <<n>> is Some(n), <<>> is None
ExitStatuses == {<<n>> : n \in 0..MaxExit} \cup {<<>>}

\* the bytes a process wrote to its stdout and to its stderr
Written ==
    UNION {BytesUpTo(k) \X BytesUpTo(MaxBytes - k) : k \in 0..MaxBytes}

\* what the operating system makes of one spawn
Env ==
    {[started |-> FALSE, status |-> <<>>, out |-> <<>>, err |-> <<>>]}
    \cup
    {[started |-> TRUE, status |-> s, out |-> w[1], err |-> w[2]] :
        s \in ExitStatuses, w \in Written}

\* ------------------------------------------------------------- std / crate
\* String::from_utf8 on the one- and two-byte forms (Byte holds no lead
\* byte of a longer form): <<s>> is Ok(s), <<>> is Err.  A String is the
\* sequence of its code points.
RECURSIVE FromUtf8(_)
FromUtf8(b) ==
    IF b = <<>> THEN << <<>> >>
    ELSE IF b[1] < 128
    THEN LET r == FromUtf8(Tail(b))
         IN  IF r = <<>> THEN <<>> ELSE << <<b[1]>> \o r[1] >>
    ELSE IF b[1] \in 194..223 /\ Len(b) >= 2 /\ b[2] \in 128..191
    THEN LET r == FromUtf8(SubSeq(b, 3, Len(b)))
         IN  IF r = <<>> THEN <<>>
             ELSE << <<(b[1] - 192) * 64 + (b[2] - 128)>> \o r[1] >>
    ELSE <<>>

\* "Interrupted! in RunCmd"
Interrupted ==
    <<73, 110, 116, 101, 114, 114, 117, 112, 116, 101, 100, 33, 32,
      105, 110, 32, 82, 117, 110, 67, 109, 100>>

\* ---------------------------------------------------------------- RunCmd
New(cmd) ==
    [retval  |-> [cmd |-> cmd, stdout |-> <<>>, stderr |-> <<>>, exitcode |-> 0],
     execute |-> FALSE,
     verbose |-> FALSE,
     shell   |-> FALSE]

\* the call made no spawn, printed nothing and returned
Quiet ==
    /\ spawned' = <<>>
    /\ output' = <<>>
    /\ console' = <<>>
    /\ result' = <<>>
    /\ outcome' = "return"
    /\ log' = <<>>

Init ==
    /\ cmd0 \in Commands
    /\ retval = New(cmd0).retval
    /\ execute = New(cmd0).execute
    /\ verbose = New(cmd0).verbose
    /\ shell = New(cmd0).shell
    /\ op = "new"
    /\ spawned = <<>>
    /\ output = <<>>
    /\ console = <<>>
    /\ result = <<>>
    /\ outcome = "return"
    /\ log = <<>>

Verbose ==
    /\ verbose' = TRUE
    /\ op' = "verbose"
    /\ Quiet
    /\ UNCHANGED <<cmd0, retval, execute, shell>>

\* shell() that also clears the verbose flag
ShellMut ==
    /\ shell' = TRUE
    /\ verbose' = FALSE
    /\ op' = "shell"
    /\ Quiet
    /\ UNCHANGED <<cmd0, retval, execute>>

Shell ==
    /\ shell' = TRUE
    /\ op' = "shell"
    /\ Quiet
    /\ UNCHANGED <<cmd0, retval, execute, verbose>>

\* what print() writes: the four fields of self.retval
Block(rv) == rv

\* a report of the successful executions only
ReportMut(vb, rv) == IF vb /\ rv.exitcode = 0 THEN <<Block(rv)>> ELSE <<>>

\* if self.verbose { self.print(); }
Report(vb, rv) == IF vb THEN <<Block(rv)>> ELSE <<>>

\* the builder chosen and its stdio: piped if verbose or not via executep
Spawn(rv, vb, ex, sh) ==
    [mode  |-> IF sh THEN "shell" ELSE "command",
     cmd   |-> rv.cmd,
     piped |-> vb \/ ~ex]

\* execute_output(): Err if the process did not start, else its status and
\* the bytes of the piped streams (an inherited stream yields none)
ExecuteOutput(sp, env) ==
    IF ~env.started THEN <<>>
    ELSE <<[status |-> env.status,
            stdout |-> IF sp.piped THEN env.out ELSE <<>>,
            stderr |-> IF sp.piped THEN env.err ELSE <<>>]>>

\* a spawn failure that is recorded in retval before the panic
SpawnPanicMut(rv, sp) ==
    [retval  |-> [rv EXCEPT !.exitcode = -1],
     spawned |-> <<sp>>,
     output  |-> <<>>,
     console |-> <<>>,
     result  |-> <<>>,
     outcome |-> "panic: spawn",
     log     |-> <<"spawn", "panic">>]

\* unwrap() of the Err of execute_output()
SpawnPanic(rv, sp) ==
    [retval  |-> rv,
     spawned |-> <<sp>>,
     output  |-> <<>>,
     console |-> <<>>,
     result  |-> <<>>,
     outcome |-> "panic: spawn",
     log     |-> <<"spawn", "panic">>]

\* unwrap() of the Err of String::from_utf8(): rv is what was assigned so far
Utf8Panic(rv, sp, out) ==
    [retval  |-> rv,
     spawned |-> <<sp>>,
     output  |-> <<out>>,
     console |-> <<>>,
     result  |-> <<>>,
     outcome |-> "panic: utf8",
     log     |-> <<"spawn", "wait", "panic">>]

\* an interruption stored as a fresh RunCmdOutput, its cmd left empty
StoreInterruptedMut(rv) ==
    [cmd |-> "", stdout |-> rv.stdout, stderr |-> Interrupted, exitcode |-> -1]

\* the else branch: no exit code
StoreInterrupted(rv) ==
    [rv EXCEPT !.exitcode = -1, !.stderr = Interrupted]

\* the exit code stored as a failure flag
StoreExitCodeMut(rv, code) ==
    [rv EXCEPT !.exitcode = IF code = 0 THEN 0 ELSE 1]

\* self.retval.exitcode = exit_code
StoreExitCode(rv, code) == [rv EXCEPT !.exitcode = code]

\* the tail of execute(): print if verbose, return a clone
Finish(rv, vb, sp, out) ==
    [retval  |-> rv,
     spawned |-> <<sp>>,
     output  |-> <<out>>,
     console |-> Report(vb, rv),
     result  |-> <<rv>>,
     outcome |-> "return",
     log     |-> <<"spawn", "wait", "store">>
                 \o (IF Report(vb, rv) # <<>> THEN <<"print">> ELSE <<>>)
                 \o <<"return">>]

\* execute() as a function of the object and of the environment
ExecuteCall(rv, vb, ex, sh, env) ==
    LET sp  == Spawn(rv, vb, ex, sh)
        res == ExecuteOutput(sp, env)
    IN  IF res = <<>> THEN SpawnPanic(rv, sp)
        ELSE
        LET out == res[1]
        IN  IF out.status # <<>>
            THEN LET rv1 == StoreExitCode(rv, out.status[1])
                     so  == FromUtf8(out.stdout)
                 IN  IF so = <<>> THEN Utf8Panic(rv1, sp, out)
                     ELSE
                     LET rv2 == [rv1 EXCEPT !.stdout = so[1]]
                         se  == FromUtf8(out.stderr)
                     IN  IF se = <<>> THEN Utf8Panic(rv2, sp, out)
                         ELSE Finish([rv2 EXCEPT !.stderr = se[1]], vb, sp, out)
            ELSE Finish(StoreInterrupted(rv), vb, sp, out)

Effects(r) ==
    /\ retval' = r.retval
    /\ spawned' = r.spawned
    /\ output' = r.output
    /\ console' = r.console
    /\ result' = r.result
    /\ outcome' = r.outcome
    /\ log' = r.log

Execute ==
    \E env \in Env :
        /\ op' = "execute"
        /\ Effects(ExecuteCall(retval, verbose, execute, shell, env))
        /\ UNCHANGED <<cmd0, verbose, execute, shell>>

\* a test that lets the negative sentinel pass
MustPanicMut(code) == code > 0

\* if retval.exitcode != 0
MustPanic(code) == code # 0

\* executep() after its call of execute() returned r
AfterExecute(r, vb) ==
    IF r.outcome # "return" THEN r
    ELSE IF MustPanic(r.result[1].exitcode)
    THEN [r EXCEPT !.console = r.console \o Report(vb, r.retval),
                   !.outcome = "panic: Exitcode != 0",
                   !.log = r.log
                           \o (IF Report(vb, r.retval) # <<>>
                               THEN <<"print">> ELSE <<>>)
                           \o <<"panic">>]
    ELSE [r EXCEPT !.log = r.log \o <<"done">>]

Executep ==
    \E env \in Env :
        /\ op' = "executep"
        /\ execute' = TRUE
        /\ Effects(AfterExecute(
               ExecuteCall(retval, verbose, TRUE, shell, env), verbose))
        /\ UNCHANGED <<cmd0, verbose, shell>>

Next == Verbose \/ Shell \/ Execute \/ Executep

Spec == Init /\ [][Next]_vars

\* ============================================================ properties
Ran == op \in {"execute", "executep"} /\ output # <<>>

\* the process of the last call exited with a status
Exited == Ran /\ output[1].status # <<>>

\* the process of the last call was ended by a signal
Signalled == Ran /\ output[1].status = <<>>

\* ------------------------------------------------------------------- C1
\* C1: when the process exits normally with status N, the exit code stored
\* is N and the result execute() returns has exitcode N, whatever shell and
\* verbose are; a returned exitcode is 0 exactly when the process exited
\* with status 0 (the sentinel -1 of a signal is a failure).
C1_ExitCode ==
    /\ Exited =>
          /\ retval.exitcode = output[1].status[1]
          /\ result # <<>> => result[1].exitcode = output[1].status[1]
    /\ (Ran /\ result # <<>>) =>
          (result[1].exitcode = 0 <=> output[1].status = <<0>>)

C1_Witness ==
    /\ op = "execute" /\ shell /\ verbose
    /\ Exited /\ output[1].status = <<2>>
    /\ result # <<>> /\ result[1].exitcode = 2

\* ------------------------------------------------------------------- C2
\* C2 as written: executep() returns normally if and only if the process
\* ended with exit status 0, and it has run the process once.
C2_Original ==
    (op = "executep" /\ Ran) =>
        /\ outcome = "return" <=> output[1].status = <<0>>
        /\ Len(spawned) = 1

\* C2 as amended: executep() returns normally if and only if the process
\* ended with exit status 0 and decoding its captured output did not fail,
\* which can happen only with verbose set; any nonzero status and the
\* sentinel -1 make it panic, after one run of the process by execute().
C2_Amended ==
    (op = "executep" /\ Ran) =>
        /\ outcome = "return" <=>
              (output[1].status = <<0>> /\ outcome # "panic: utf8")
        /\ outcome = "panic: utf8" =>
              /\ verbose
              /\ Exited
              /\ \/ FromUtf8(output[1].stdout) = <<>>
                 \/ FromUtf8(output[1].stderr) = <<>>
        /\ outcome = "panic: Exitcode != 0" <=>
              (result # <<>> /\ result[1].exitcode # 0)
        /\ Len(spawned) = 1
        /\ log[1] = "spawn" /\ log[2] = "wait"

C2_Witness ==
    /\ op = "executep" /\ Signalled
    /\ outcome = "panic: Exitcode != 0"
    /\ result # <<>> /\ result[1].exitcode = -1

\* ------------------------------------------------------------------- C3
\* C3: the stored command, and the command of every result execute()
\* returns, is the string given to new(), after any calls, failing or not.
C3_Command ==
    /\ retval.cmd = cmd0
    /\ result # <<>> => result[1].cmd = cmd0

C3_Witness ==
    /\ op = "execute" /\ Signalled /\ shell /\ verbose /\ execute
    /\ result # <<>> /\ result[1].cmd = cmd0

\* ------------------------------------------------------------------- C4
\* C4: the streams of an execution are piped exactly when verbose is set
\* or the call is execute(); they are inherited only in an executep()
\* without verbose, whatever was called on the object before.
C4_Capture ==
    spawned # <<>> =>
        (spawned[1].piped <=> (verbose \/ op = "execute"))

\* ------------------------------------------------------------------- C5
\* C5: when the process is ended by a signal, execute() returns exitcode
\* -1, the interruption string as stderr, and as stdout the text captured
\* from this execution.
C5_Interrupted ==
    (op = "execute" /\ Signalled) =>
        /\ outcome = "return"
        /\ result # <<>>
        /\ result[1].exitcode = -1
        /\ result[1].stderr = Interrupted
        /\ <<result[1].stdout>> = FromUtf8(output[1].stdout)

\* ------------------------------------------------------------------- C6
\* the result that reflects the process behind out and nothing else
OutcomeOf(out) ==
    [cmd      |-> cmd0,
     stdout   |-> FromUtf8(out.stdout)[1],
     stderr   |-> IF out.status # <<>>
                  THEN FromUtf8(out.stderr)[1] ELSE Interrupted,
     exitcode |-> IF out.status # <<>> THEN out.status[1] ELSE -1]

\* C6: of two successive execute() calls whose processes end differently,
\* the second spawns one process, stores its outcome and returns a copy of
\* what is stored, which reflects the second process only.
C6_NoCaching ==
    [][(/\ op = "execute" /\ outcome = "return"
        /\ op' = "execute" /\ outcome' = "return"
        /\ output' # output
        /\ FromUtf8(output'[1].stdout) # <<>>)
       => (/\ Len(spawned') = 1
           /\ retval' = result'[1]
           /\ result'[1] = OutcomeOf(output'[1]))]_vars

\* ------------------------------------------------------------------- C7
\* C7: when the process cannot be started, execute() and executep() panic
\* at once: nothing is returned, one spawn was attempted, nothing is
\* printed and retval is what it was before the call.
C7_SpawnFailure ==
    [][(op' \in {"execute", "executep"} /\ spawned' # <<>> /\ output' = <<>>)
       => (/\ outcome' = "panic: spawn"
           /\ result' = <<>>
           /\ Len(spawned') = 1
           /\ console' = <<>>
           /\ log' = <<"spawn", "panic">>
           /\ retval' = retval)]_vars

C7_Witness ==
    /\ op = "executep" /\ outcome = "panic: spawn"
    /\ verbose
    /\ retval.exitcode = 1 /\ retval.stdout # <<>>

\* ------------------------------------------------------------------- C8
Prints == {i \in 1..Len(log) : log[i] = "print"}

C9_Setters ==
    /\ (~shell /\ ~verbose /\ ~execute
        /\ retval.stdout = <<>> /\ retval.stderr = <<>> /\ retval.exitcode = 0)
    /\ [][/\ op' = "shell" =>
                (shell' /\ UNCHANGED <<retval, verbose, execute>>)
          /\ op' = "verbose" =>
                (verbose' /\ UNCHANGED <<retval, shell, execute>>)
          /\ (op' = "shell" /\ shell) => UNCHANGED self
          /\ (op' = "verbose" /\ verbose) => UNCHANGED self
          /\ shell => shell'
          /\ verbose => verbose'
          /\ execute => execute']_vars

C9_Witness ==
    /\ op = "shell" /\ shell /\ ~verbose /\ execute
    /\ retval.exitcode = -1 /\ retval.stdout # <<>>

\* ------------------------------------------------------------------ C10
\* C10: when the captured stdout or stderr of a process that exited is not
\* valid UTF-8, execute() panics instead of returning and the exitcode,
\* stdout and stderr stored are those of before the call.
C10_DecodingFailure ==
    [][(/\ op' = "execute" /\ output' # <<>> /\ output'[1].status # <<>>
        /\ \/ FromUtf8(output'[1].stdout) = <<>>
           \/ FromUtf8(output'[1].stderr) = <<>>)
       => (/\ outcome' = "panic: utf8"
           /\ result' = <<>>
           /\ retval'.exitcode = retval.exitcode
           /\ retval'.stdout = retval.stdout
           /\ retval'.stderr = retval.stderr)]_vars

====
